---- MODULE Spec2Model ----
(***************************************************************************)
(* Model of src/webhook/app.py: the POST /alert handler (alert) and the    *)
(* Telegram forwarder (send_telegram).                                     *)
(*                                                                         *)
(* JSON values are tagged records, JSON texts are sequences of tokens; a   *)
(* string's content is itself a text, so that a string may hold an encoded *)
(* JSON document (double encoding).  json_loads is a recursive-descent     *)
(* parser over tokens, json_dumps the sender's encoder.                    *)
(***************************************************************************)
EXTENDS Integers, Sequences, FiniteSets, TLC

(* ------------------------------ bounds -------------------------------- *)

\* Longest candidate list a request body carries.
MaxBatch == 2

(* --------------------------- JSON values ------------------------------ *)

\* Python None: JSON null, and what try_parse_json_string returns on failure.
None == [k |-> "null"]
JNum(n) == [k |-> "num", n |-> n]
JBool(b) == [k |-> "bool", b |-> b]
JStr(text) == [k |-> "str", s |-> text]
JList(l) == [k |-> "list", l |-> l]
JMap(m) == [k |-> "map", m |-> m]

\* isinstance(v, dict) / isinstance(v, list) / isinstance(v, str)
IsDict(v) == v.k = "map"
IsList(v) == v.k = "list"
IsStr(v) == v.k = "str"

(* ---------------------------- JSON texts ------------------------------ *)

\* Punctuation tokens, literal tokens, and a bare word (no JSON token).
P(c) == [t |-> c]
TNum(n) == [t |-> "num", n |-> n]
TBool(b) == [t |-> "bool", b |-> b]
TStr(text) == [t |-> "str", s |-> text]
W(w) == [t |-> "word", w |-> w]

\* The text of a plain (one word) string, also used as a mapping key.
Txt(w) == <<W(w)>>
EmptyMap == [x \in {} |-> None]

\* Result of a parse step: failure, or a value and the unread tokens.
Fail == [ok |-> FALSE]
Ok(v, rest) == [ok |-> TRUE, v |-> v, rest |-> rest]

RECURSIVE ParseValue(_), ParseItems(_, _), ParseMembers(_, _)

\* json.loads, the value grammar: null, number, boolean, string, array, object.
ParseValue(ts) ==
  IF ts = <<>> THEN Fail
  ELSE LET h == Head(ts)
           r == Tail(ts)
       IN CASE h.t = "null" -> Ok(None, r)
            [] h.t = "num" -> Ok(JNum(h.n), r)
            [] h.t = "bool" -> Ok(JBool(h.b), r)
            [] h.t = "str" -> Ok(JStr(h.s), r)
            [] h.t = "[" -> IF r # <<>> /\ Head(r).t = "]"
                            THEN Ok(JList(<<>>), Tail(r))
                            ELSE ParseItems(r, <<>>)
            [] h.t = "{" -> IF r # <<>> /\ Head(r).t = "}"
                            THEN Ok(JMap(EmptyMap), Tail(r))
                            ELSE ParseMembers(r, EmptyMap)
            [] OTHER -> Fail

\* The items of an array after "[" or ",": value, then "," or "]".
ParseItems(ts, acc) ==
  LET e == ParseValue(ts)
  IN IF ~e.ok \/ e.rest = <<>> THEN Fail
     ELSE LET sep == Head(e.rest).t
              more == Tail(e.rest)
          IN CASE sep = "," -> ParseItems(more, Append(acc, e.v))
               [] sep = "]" -> Ok(JList(Append(acc, e.v)), more)
               [] OTHER -> Fail

\* The members of an object after "{" or ",": string, ":", value, then ","
\* or "}".  A repeated key keeps its last value.
ParseMembers(ts, acc) ==
  IF Len(ts) < 2 \/ ts[1].t # "str" \/ ts[2].t # ":" THEN Fail
  ELSE LET key == ts[1].s
           e == ParseValue(SubSeq(ts, 3, Len(ts)))
       IN IF ~e.ok \/ e.rest = <<>> THEN Fail
          ELSE LET sep == Head(e.rest).t
                   more == Tail(e.rest)
                   m == [x \in (DOMAIN acc) \cup {key} |->
                           IF x = key THEN e.v ELSE acc[x]]
               IN CASE sep = "," -> ParseMembers(more, m)
                    [] sep = "}" -> Ok(JMap(m), more)
                    [] OTHER -> Fail

\* The decoder of json.loads: the whole text must be one value;
\* [ok |-> FALSE] stands for the exception it raises otherwise.
ParseText(text) ==
  LET e == ParseValue(text)
  IN IF e.ok /\ e.rest = <<>> THEN e ELSE Fail

RECURSIVE json_dumps(_), DumpItems(_), DumpMembers(_, _)

\* The sender's JSON encoder (the inverse the handler's json.loads undoes).
json_dumps(v) ==
  CASE v.k = "null" -> <<P("null")>>
    [] v.k = "num" -> <<TNum(v.n)>>
    [] v.k = "bool" -> <<TBool(v.b)>>
    [] v.k = "str" -> <<TStr(v.s)>>
    [] v.k = "list" -> <<P("[")>> \o DumpItems(v.l) \o <<P("]")>>
    [] v.k = "map" -> <<P("{")>> \o DumpMembers(v.m, DOMAIN v.m) \o <<P("}")>>

DumpItems(l) ==
  IF l = <<>> THEN <<>>
  ELSE json_dumps(Head(l))
       \o (IF Len(l) > 1 THEN <<P(",")>> ELSE <<>>)
       \o DumpItems(Tail(l))

DumpMembers(m, keys) ==
  IF keys = {} THEN <<>>
  ELSE LET key == CHOOSE x \in keys : TRUE
       IN <<TStr(key), P(":")>> \o json_dumps(m[key])
          \o (IF keys # {key} THEN <<P(",")>> ELSE <<>>)
          \o DumpMembers(m, keys \ {key})

(* -------------------------- Python helpers ---------------------------- *)

\* Header and secret strings are sequences of atoms; " " and "\n" are the
\* whitespace atoms.
PyStr(s) == [k |-> "str", s |-> s]
Whitespace == {" ", "\n"}

\* bool(v) for the values the handler tests.
Truthy(v) ==
  CASE v.k = "null" -> FALSE
    [] v.k = "bool" -> v.b
    [] v.k = "num" -> v.n # 0
    [] v.k = "str" -> v.s # <<>>
    [] v.k = "list" -> v.l # <<>>
    [] v.k = "map" -> DOMAIN v.m # {}

RECURSIVE LStrip(_), RStrip(_)
LStrip(s) == IF s # <<>> /\ Head(s) \in Whitespace THEN LStrip(Tail(s)) ELSE s
RStrip(s) ==
  IF s # <<>> /\ s[Len(s)] \in Whitespace THEN RStrip(SubSeq(s, 1, Len(s) - 1)) ELSE s
\* str.strip()
Strip(s) == RStrip(LStrip(s))

\* s.startswith(prefix)
StartsWith(s, prefix) ==
  Len(s) >= Len(prefix) /\ SubSeq(s, 1, Len(prefix)) = prefix

\* s.split(" ", 1)[1]: what follows the first space (s holds one).
AfterFirstSpace(s) ==
  LET i == CHOOSE j \in 1..Len(s) : s[j] = " " /\ \A h \in 1..(j - 1) : s[h] # " "
  IN SubSeq(s, i + 1, Len(s))

\* d.get(key, default)
DictGet(d, key, default) == IF key \in DOMAIN d.m THEN d.m[key] ELSE default

\* x or y
PyOr(x, y) == IF Truthy(x) THEN x ELSE y

\* str(v), as an f-string field formats it.
Str(v) ==
  CASE v.k = "str" -> v.s
    [] v.k = "null" -> <<W("None")>>
    [] v.k = "bool" -> <<W(IF v.b THEN "True" ELSE "False")>>
    [] v.k = "num" -> <<TNum(v.n)>>
    [] OTHER -> <<[t |-> "repr", v |-> v]>>

(* --------------------------- configuration ---------------------------- *)

\* Contents of TOKEN_FILE at startup: absent, or its text.
TokenFiles == {None, PyStr(<<"\n">>), PyStr(<<"s3cret", "\n">>)}

\* EXPECTED_TOKEN after module load (lines 16-19).
LoadToken(file) == IF file = None THEN None ELSE PyStr(Strip(file.s))

\* (TELEGRAM_BOT_TOKEN, TELEGRAM_CHAT_ID) as os.environ.get returns them.
Credentials ==
  { <<PyStr(<<"bot">>), PyStr(<<"chat">>)>>,
    <<None, PyStr(<<"chat">>)>>,
    <<PyStr(<<"bot">>), PyStr(<<>>)>> }

\* send_telegram's default max_retries.
max_retries == 3

(* ------------------------------ inputs -------------------------------- *)

\* Authorization headers: missing, right, wrong token, no "Bearer " prefix,
\* another scheme, an empty token, the token followed by more.
AuthHeaders ==
  { None,
    PyStr(<<"Bearer", " ", "s3cret">>),
    PyStr(<<"Bearer", " ", "wrong">>),
    PyStr(<<"s3cret">>),
    PyStr(<<"Basic", " ", "s3cret">>),
    PyStr(<<"Bearer", " ">>),
    PyStr(<<"Bearer", " ", "s3cret", " ", "x">>) }

MFull ==
  JMap((Txt("status") :> JStr(Txt("firing")))
       @@ (Txt("labels") :> JMap((Txt("alertname") :> JStr(Txt("DiskFull")))
                                 @@ (Txt("instance") :> JStr(Txt("db1")))))
       @@ (Txt("annotations") :> JMap(Txt("summary") :> JStr(Txt("disk at 95%")))))
MBare == JMap(Txt("bad") :> JNum(1))
\* labels and annotations present but no mappings.
MOdd ==
  JMap((Txt("status") :> JStr(Txt("firing")))
       @@ (Txt("labels") :> JStr(Txt("alertname=DiskFull")))
       @@ (Txt("annotations") :> JList(<<JNum(1)>>)))
\* Only the second link of the instance and summary chains is present.
MHost ==
  JMap((Txt("status") :> JStr(Txt("resolved")))
       @@ (Txt("labels") :> JMap(Txt("host") :> JStr(Txt("web1"))))
       @@ (Txt("annotations") :> JMap(Txt("description") :> JStr(Txt("back up")))))
\* The first links are present and empty.
MEmpty ==
  JMap((Txt("status") :> JStr(<<>>))
       @@ (Txt("labels") :> JMap((Txt("alertname") :> JStr(<<>>))
                                 @@ (Txt("instance") :> JStr(<<>>))
                                 @@ (Txt("host") :> JStr(Txt("web1")))))
       @@ (Txt("annotations") :> JMap((Txt("summary") :> JStr(<<>>))
                                      @@ (Txt("description") :> JStr(Txt("back up"))))))
\* The first links are present and null.
MNull ==
  JMap((Txt("status") :> None)
       @@ (Txt("labels") :> JMap((Txt("alertname") :> None)
                                 @@ (Txt("instance") :> None)
                                 @@ (Txt("host") :> JStr(Txt("web1")))))
       @@ (Txt("annotations") :> JMap((Txt("summary") :> None)
                                      @@ (Txt("description") :> None))))

\* The mappings a sender may put in a batch, directly or encoded.
Mappings == {MFull, MBare, MOdd, MHost, MEmpty, MNull}

\* Candidate elements that are combined into batches: a mapping, the string
\* encoding it, and a string that is no JSON.
Elems ==
  { MFull,
    JStr(json_dumps(MFull)),
    JStr(Txt("not-a-json-string")) }

\* Candidate elements that are sent alone: the other mappings, direct and
\* encoded, a string encoding a sequence, and a number.
LoneElems ==
  ((Mappings \cup {JStr(json_dumps(m)) : m \in Mappings}) \ Elems)
  \cup {JStr(json_dumps(JList(<<MFull>>))), JNum(7)}

Batches ==
  UNION {[1..n -> Elems] : n \in 0..MaxBatch} \cup {<<e>> : e \in LoneElems}

\* Decoded top-level bodies: envelopes, bare arrays, single mappings, a
\* mapping whose alerts is no sequence, scalars, and JSON strings.
Bodies ==
  {JMap(Txt("alerts") :> JList(l)) : l \in Batches}
  \cup {JList(l) : l \in Batches}
  \cup Mappings
  \cup {JMap(EmptyMap), JMap(Txt("alerts") :> MFull)}
  \cup {JNum(7), JBool(TRUE), None}
  \cup {JStr(json_dumps(JList(<<MFull>>))), JStr(json_dumps(MFull)), JStr(Txt("hello"))}

\* Request bodies as sent: encoded bodies and texts that are no JSON.
RawBodies ==
  {json_dumps(b) : b \in Bodies}
  \cup {<<>>, <<W("not"), W("json")>>, <<P("{"), TStr(Txt("alerts")), P(":")>>}

\* What one requests.post call may do: a response (status, text), a
\* RequestException ("net"), or any other exception ("exc").
Reply(status, text) == [kind |-> "http", status |-> status, text |-> text]
Replies ==
  { Reply(200, json_dumps(JMap(Txt("ok") :> JBool(TRUE)))),
    Reply(200, json_dumps(JMap(Txt("ok") :> JBool(FALSE)))),
    Reply(200, json_dumps(JMap(EmptyMap))),
    Reply(200, json_dumps(JList(<<>>))),
    Reply(200, <<W("<html>")>>),
    Reply(500, <<W("internal")>>),
    Reply(599, <<W("timeout")>>),
    Reply(400, <<W("bad request")>>),
    Reply(600, <<W("odd")>>),
    [kind |-> "net"],
    [kind |-> "exc"] }

\* The texts json.loads is given: request bodies, string elements and the
\* bodies of responses.
JsonTexts ==
  RawBodies
  \cup {e.s : e \in {c \in Elems \cup LoneElems : IsStr(c)}}
  \cup {r.text : r \in {q \in Replies : q.kind = "http"}}

\* The decoder applied to each of these texts, computed once.
Decoded == [text \in JsonTexts |-> ParseText(text)]

\* json.loads(text)
json_loads(text) == Decoded[text]

\* try_parse_json_string(s): json.loads(s), or None when it raises.
try_parse_json_string(s) ==
  LET e == json_loads(s)
  IN IF e.ok THEN e.v ELSE None

(* ------------------------------- state -------------------------------- *)

VARIABLES
  EXPECTED_TOKEN,   \* module global, line 16-19
  TELEGRAM_BOT_TOKEN, TELEGRAM_CHAT_ID,   \* module globals, lines 23-24
  auth,             \* the header value read at line 73, when a token is set
  raw,              \* the request body as text
  pc,               \* where the handler stands
  alerts_obj,       \* the decoded body (lines 79-84), None when undecodable
  alerts_list,      \* the resolved candidate list
  idx,              \* candidates handled so far (the loop index)
  processed, skipped, errors,
  human,            \* the message of the candidate being forwarded
  attempt,          \* send_telegram's loop variable
  delay,            \* seconds of the time.sleep in progress
  result,           \* (ok, resp) of line 124 for the candidate at hand
  response,         \* the HTTP response of the request
  \* history, for stating properties
  classes,          \* how each handled candidate was counted
  delivered,        \* the send_telegram calls: [at, text]
  tries,            \* the requests.post outcomes of the current call
  sleeps,           \* the time.sleep arguments of the current call
  posts,            \* requests.post calls made for the request
  other             \* the locals of a second request whose thread is not running

config == <<EXPECTED_TOKEN, TELEGRAM_BOT_TOKEN, TELEGRAM_CHAT_ID>>
req == <<auth, raw, alerts_obj>>
counters == <<processed, skipped, errors, classes>>
sending == <<attempt, delay, result, tries, sleeps>>
vars ==
  <<config, req, pc, alerts_list, idx, counters, human, sending, response,
    delivered, posts, other>>

Unset == [k |-> "unset"]
NoResult == [k |-> "none"]
NoResponse == [status |-> 0]

\* No second request.
NoRequest == [pc |-> "none"]

\* Lines 16-24: the module globals after import.
Loaded ==
  /\ EXPECTED_TOKEN \in {LoadToken(f) : f \in TokenFiles}
  /\ \E c \in Credentials :
       /\ TELEGRAM_BOT_TOKEN = c[1]
       /\ TELEGRAM_CHAT_ID = c[2]

\* The locals of a request that arrived with the given body.
Arrived(body) ==
  /\ auth = Unset
  /\ raw = body
  /\ pc = "start"
  /\ alerts_obj = Unset
  /\ alerts_list = <<>>
  /\ idx = 0
  /\ processed = 0
  /\ skipped = 0
  /\ errors = <<>>
  /\ human = <<>>
  /\ attempt = 0
  /\ delay = 0
  /\ result = NoResult
  /\ response = NoResponse
  /\ classes = <<>>
  /\ delivered = <<>>
  /\ tries = <<>>
  /\ sleeps = <<>>
  /\ posts = 0

\* One request.
Init ==
  /\ Loaded
  /\ \E body \in RawBodies : Arrived(body)
  /\ other = NoRequest

(* ------------------------------- alert -------------------------------- *)

\* request.headers.get("Authorization", "")
HeaderOrEmpty(header) == IF header = None THEN PyStr(<<>>) ELSE header

\* Mutant of BadToken: only the scheme is checked, the token is not compared.
BadToken_SchemeOnly(a, token) == ~StartsWith(a.s, <<"Bearer", " ">>)

\* Line 74: the header does not carry the expected token.
BadToken(a, token) ==
  \/ ~StartsWith(a.s, <<"Bearer", " ">>)
  \/ AfterFirstSpace(a.s) # token.s

\* Lines 71-76: with a token set, the header is read and checked.
Authenticate ==
  /\ pc = "start"
  /\ IF Truthy(EXPECTED_TOKEN)
     THEN \E header \in AuthHeaders :
            /\ auth' = HeaderOrEmpty(header)
            /\ IF BadToken(auth', EXPECTED_TOKEN)
               THEN /\ response' = [status |-> 401, error |-> "unauthorized"]
                    /\ pc' = "done"
               ELSE /\ pc' = "parse"
                    /\ UNCHANGED response
     ELSE /\ pc' = "parse"
          /\ UNCHANGED <<auth, response>>
  /\ UNCHANGED <<config, other, raw, alerts_obj, alerts_list, idx, counters,
                 human, sending, delivered, posts>>

\* request.get_json(silent=True): None unless the content type is JSON and
\* the body decodes.
get_json(is_json, body) == IF is_json THEN try_parse_json_string(body) ELSE None

\* Lines 79-84.
ParseBody(is_json, body) ==
  LET got == get_json(is_json, body)
  IN IF got = None THEN try_parse_json_string(body) ELSE got

\* Mutant of ResolveList: the last branch wraps whatever was decoded instead
\* of refusing it.
ResolveList_WrapAny(obj) ==
  IF /\ IsDict(obj)
     /\ Txt("alerts") \in DOMAIN obj.m
     /\ IsList(obj.m[Txt("alerts")])
  THEN [ok |-> TRUE, l |-> obj.m[Txt("alerts")].l]
  ELSE IF IsList(obj) THEN [ok |-> TRUE, l |-> obj.l]
  ELSE [ok |-> TRUE, l |-> <<obj>>]

\* Mutant of ResolveList: the envelope branch is missing, so an envelope is
\* taken for a single alert.
ResolveList_NoEnvelope(obj) ==
  IF IsList(obj) THEN [ok |-> TRUE, l |-> obj.l]
  ELSE IF IsDict(obj) THEN [ok |-> TRUE, l |-> <<obj>>]
  ELSE [ok |-> FALSE]

\* Lines 86-93: the candidate list, or no list (the 400 branch).
ResolveList(obj) ==
  IF /\ IsDict(obj)
     /\ Txt("alerts") \in DOMAIN obj.m
     /\ IsList(obj.m[Txt("alerts")])
  THEN [ok |-> TRUE, l |-> obj.m[Txt("alerts")].l]
  ELSE IF IsList(obj) THEN [ok |-> TRUE, l |-> obj.l]
  ELSE IF IsDict(obj) THEN [ok |-> TRUE, l |-> <<obj>>]
  ELSE [ok |-> FALSE]

\* Lines 78-97.
Normalize ==
  /\ pc = "parse"
  /\ \E is_json \in BOOLEAN :
       /\ alerts_obj' = ParseBody(is_json, raw)
       /\ LET r == ResolveList(alerts_obj')
          IN IF r.ok
             THEN /\ alerts_list' = r.l
                  /\ pc' = "loop"
                  /\ UNCHANGED response
             ELSE /\ response' = [status |-> 400, error |-> "invalid_json"]
                  /\ pc' = "done"
                  /\ UNCHANGED alerts_list
  /\ UNCHANGED <<config, other, auth, raw, idx, counters, human, sending,
                 delivered, posts>>

\* Mutant of Unwrap: a string element is never decoded.
Unwrap_NoDecode(a) ==
  IF IsStr(a) THEN [ok |-> FALSE, why |-> "skipped_str"]
  ELSE IF ~IsDict(a) THEN [ok |-> FALSE, why |-> "skipped_type"]
  ELSE [ok |-> TRUE, a |-> a]

\* Lines 100-111: the mapping to extract from, or why the element is skipped.
Unwrap(a) ==
  IF IsStr(a)
  THEN LET parsed == try_parse_json_string(a.s)
       IN IF IsDict(parsed) THEN [ok |-> TRUE, a |-> parsed]
          ELSE [ok |-> FALSE, why |-> "skipped_str"]
  ELSE IF ~IsDict(a) THEN [ok |-> FALSE, why |-> "skipped_type"]
  ELSE [ok |-> TRUE, a |-> a]

\* Lines 114-120: the message text of a mapping.  The f-string's pieces are
\* words of the text; " -- " stands for its " — " (an em dash).
Human(a) ==
  LET l0 == DictGet(a, Txt("labels"), JMap(EmptyMap))
      labels == IF IsDict(l0) THEN l0 ELSE JMap(EmptyMap)
      a0 == DictGet(a, Txt("annotations"), JMap(EmptyMap))
      ann == IF IsDict(a0) THEN a0 ELSE JMap(EmptyMap)
      name == DictGet(labels, Txt("alertname"), JStr(Txt("<no-name>")))
      instance == DictGet(labels, Txt("instance"),
                          DictGet(labels, Txt("host"), JStr(Txt("<unknown>"))))
      summary == PyOr(PyOr(DictGet(ann, Txt("summary"), None),
                           DictGet(ann, Txt("description"), None)),
                      JStr(<<>>))
      status == DictGet(a, Txt("status"), JStr(Txt("?")))
  IN <<W("[")>> \o Str(status) \o <<W("] ")>> \o Str(name) \o <<W(" on ")>>
     \o Str(instance) \o <<W(" -- ")>> \o Str(summary)

\* Mutant of Examine: labels or annotations that are present and no mapping
\* make the extraction raise.
Examine_StrictLabels ==
  /\ pc = "loop"
  /\ idx < Len(alerts_list)
  /\ LET u == Unwrap(alerts_list[idx + 1])
     IN IF u.ok
        THEN /\ human' = Human(u.a)
             /\ pc' = IF /\ IsDict(DictGet(u.a, Txt("labels"), JMap(EmptyMap)))
                         /\ IsDict(DictGet(u.a, Txt("annotations"), JMap(EmptyMap)))
                      THEN "call" ELSE "raised"
             /\ UNCHANGED <<idx, counters>>
        ELSE /\ skipped' = skipped + 1
             /\ classes' = Append(classes, u.why)
             /\ idx' = idx + 1
             /\ UNCHANGED <<pc, human, processed, errors>>
  /\ result' = NoResult
  /\ UNCHANGED <<config, other, req, alerts_list, attempt, delay, tries,
                 sleeps, response, delivered, posts>>

\* Lines 99-124: one candidate is examined; it is skipped, or its message is
\* built and send_telegram called.
Examine ==
  /\ pc = "loop"
  /\ idx < Len(alerts_list)
  /\ LET u == Unwrap(alerts_list[idx + 1])
     IN IF u.ok
        THEN /\ human' = Human(u.a)
             /\ pc' = "call"
             /\ UNCHANGED <<idx, counters>>
        ELSE /\ skipped' = skipped + 1
             /\ classes' = Append(classes, u.why)
             /\ idx' = idx + 1
             /\ UNCHANGED <<pc, human, processed, errors>>
  /\ result' = NoResult
  /\ UNCHANGED <<config, other, req, alerts_list, attempt, delay, tries,
                 sleeps, response, delivered, posts>>

\* Mutant of Forwarded: a candidate counts as processed only when its
\* delivery succeeded.
Forwarded_OnlyIfOk ==
  /\ pc = "returned"
  /\ IF Truthy(result.ok)
     THEN /\ processed' = processed + 1
          /\ classes' = Append(classes, "processed")
          /\ UNCHANGED skipped
     ELSE /\ skipped' = skipped + 1
          /\ classes' = Append(classes, "skipped_undelivered")
          /\ UNCHANGED processed
  /\ idx' = idx + 1
  /\ pc' = "loop"
  /\ human' = <<>>
  /\ attempt' = 0
  /\ delay' = 0
  /\ tries' = <<>>
  /\ sleeps' = <<>>
  /\ UNCHANGED <<config, other, req, alerts_list, errors, result, response,
                 delivered, posts>>

\* Mutant of Forwarded: a delivery that failed is made again for the same
\* candidate.
Forwarded_Redeliver ==
  /\ pc = "returned"
  /\ IF Truthy(result.ok)
     THEN /\ processed' = processed + 1
          /\ classes' = Append(classes, "processed")
          /\ idx' = idx + 1
          /\ pc' = "loop"
          /\ human' = <<>>
     ELSE /\ pc' = "call"
          /\ UNCHANGED <<processed, classes, idx, human>>
  /\ attempt' = 0
  /\ delay' = 0
  /\ tries' = <<>>
  /\ sleeps' = <<>>
  /\ UNCHANGED <<config, other, req, alerts_list, skipped, errors, result,
                 response, delivered, posts>>

\* Lines 124-130: send_telegram returned (ok, resp); whatever they are, the
\* candidate is processed.  send_telegram's locals are gone.
Forwarded ==
  /\ pc = "returned"
  /\ processed' = processed + 1
  /\ classes' = Append(classes, "processed")
  /\ idx' = idx + 1
  /\ pc' = "loop"
  /\ human' = <<>>
  /\ attempt' = 0
  /\ delay' = 0
  /\ tries' = <<>>
  /\ sleeps' = <<>>
  /\ UNCHANGED <<config, other, req, alerts_list, skipped, errors, result,
                 response, delivered, posts>>

\* Mutant of Except: the error is recorded but the candidate is not counted.
Except_NoCount ==
  /\ pc = "raised"
  /\ errors' = Append(errors, "exc")
  /\ classes' = Append(classes, "skipped_exc")
  /\ idx' = idx + 1
  /\ pc' = "loop"
  /\ human' = <<>>
  /\ attempt' = 0
  /\ delay' = 0
  /\ result' = NoResult
  /\ tries' = <<>>
  /\ sleeps' = <<>>
  /\ UNCHANGED <<config, other, req, alerts_list, processed, skipped,
                 response, delivered, posts>>

\* Mutant of Except: no handler around the element, the exception ends the
\* request with a server error.
Except_Abort ==
  /\ pc = "raised"
  /\ response' = [status |-> 500, error |-> "exc"]
  /\ pc' = "done"
  /\ UNCHANGED <<config, other, req, alerts_list, idx, counters, human,
                 sending, delivered, posts>>

\* Mutant of Except: the exception is counted and its message dropped.
Except_Silent ==
  /\ pc = "raised"
  /\ skipped' = skipped + 1
  /\ classes' = Append(classes, "skipped_exc")
  /\ idx' = idx + 1
  /\ pc' = "loop"
  /\ human' = <<>>
  /\ attempt' = 0
  /\ delay' = 0
  /\ result' = NoResult
  /\ tries' = <<>>
  /\ sleeps' = <<>>
  /\ UNCHANGED <<config, other, req, alerts_list, processed, errors, response,
                 delivered, posts>>

\* Lines 131-134: an exception left the try block.
Except ==
  /\ pc = "raised"
  /\ errors' = Append(errors, "exc")
  /\ skipped' = skipped + 1
  /\ classes' = Append(classes, "skipped_exc")
  /\ idx' = idx + 1
  /\ pc' = "loop"
  /\ human' = <<>>
  /\ attempt' = 0
  /\ delay' = 0
  /\ result' = NoResult
  /\ tries' = <<>>
  /\ sleeps' = <<>>
  /\ UNCHANGED <<config, other, req, alerts_list, processed, response,
                 delivered, posts>>

\* Line 136.
Respond ==
  /\ pc = "loop"
  /\ idx = Len(alerts_list)
  /\ response' = [status |-> 200,
                  received_raw_count |-> Len(alerts_list),
                  processed |-> processed,
                  skipped |-> skipped,
                  errors |-> errors]
  /\ pc' = "done"
  /\ UNCHANGED <<config, other, req, alerts_list, idx, counters, human,
                 sending, delivered, posts>>

(* --------------------------- send_telegram ---------------------------- *)

Reason(r) == [k |-> "reason", r |-> r]
Text(s) == [k |-> "text", s |-> s]
Returned(ok, resp) == [k |-> "ret", ok |-> ok, resp |-> resp]

\* Mutant of NoCreds: only the bot token is looked at.
NoCreds_BotOnly(bot, chat) == ~Truthy(bot)

\* Line 34.
NoCreds(bot, chat) == ~Truthy(bot) \/ ~Truthy(chat)

\* Lines 32-41: the call; without credentials it returns at once.
SendTelegram ==
  /\ pc = "call"
  /\ delivered' = Append(delivered, [at |-> idx + 1, text |-> human])
  /\ tries' = <<>>
  /\ sleeps' = <<>>
  /\ IF NoCreds(TELEGRAM_BOT_TOKEN, TELEGRAM_CHAT_ID)
     THEN /\ result' = Returned(JBool(FALSE), Reason("no-creds"))
          /\ pc' = "returned"
          /\ UNCHANGED attempt
     ELSE /\ attempt' = 1
          /\ pc' = "post"
          /\ UNCHANGED result
  /\ UNCHANGED <<config, other, req, alerts_list, idx, counters, human, delay,
                 response, posts>>

\* Mutant of On200: any decodable body counts as a success.
On200_AnyBodyOk(text) ==
  LET e == json_loads(text)
  IN IF e.ok /\ IsDict(e.v)
     THEN Returned(JBool(TRUE), e.v)
     ELSE Returned(JBool(FALSE), Text(text))

\* Lines 45-50: the outcome of a 200 response.
On200(text) ==
  LET e == json_loads(text)
  IN IF e.ok /\ IsDict(e.v)
     THEN Returned(DictGet(e.v, Txt("ok"), JBool(FALSE)), e.v)
     ELSE Returned(JBool(FALSE), Text(text))

\* Line 53.
IsServerError(status) == 500 <= status /\ status < 600

\* Mutant of NetworkBackoff: a constant one-second delay.
NetworkBackoff_Flat(n) == 1

\* Mutant of ServerBackoff: the delay of the network branch, attempt seconds.
ServerBackoff_Linear(n) == 1 * n

\* Lines 55 and 60: the backoff after a 5xx response, after a network error.
ServerBackoff(n) == 2 ^ n
NetworkBackoff(n) == 1 * n

\* How lines 45, 53 and 58 tell the outcomes of a requests.post call apart.
Outcome(r) ==
  CASE r.kind # "http" -> r.kind
    [] r.kind = "http" /\ r.status = 200 -> "200"
    [] r.kind = "http" /\ r.status # 200 /\ IsServerError(r.status) -> "5xx"
    [] OTHER -> "rejected"

\* Mutant of Post: every status other than 200 is retried after a backoff.
Post_RetryAll(r) ==
  /\ pc = "post"
  /\ posts' = posts + 1
  /\ tries' = Append(tries, Outcome(r))
  /\ CASE Outcome(r) = "net" ->
            /\ delay' = NetworkBackoff(attempt)
            /\ pc' = "sleep"
            /\ UNCHANGED result
       [] Outcome(r) = "exc" ->
            /\ pc' = "raised"
            /\ UNCHANGED <<delay, result>>
       [] Outcome(r) = "200" ->
            /\ result' = On200(r.text)
            /\ pc' = "returned"
            /\ UNCHANGED delay
       [] OTHER ->
            /\ delay' = ServerBackoff(attempt)
            /\ pc' = "sleep"
            /\ UNCHANGED result
  /\ UNCHANGED <<config, other, req, alerts_list, idx, counters, human,
                 attempt, sleeps, response, delivered>>

\* Lines 42-60: one pass of the retry loop, up to its return, its sleep or
\* the exception it lets through.
Post(r) ==
  /\ pc = "post"
  /\ posts' = posts + 1
  /\ tries' = Append(tries, Outcome(r))
  /\ CASE Outcome(r) = "net" ->
            /\ delay' = NetworkBackoff(attempt)
            /\ pc' = "sleep"
            /\ UNCHANGED result
       [] Outcome(r) = "exc" ->
            /\ pc' = "raised"
            /\ UNCHANGED <<delay, result>>
       [] Outcome(r) = "200" ->
            /\ result' = On200(r.text)
            /\ pc' = "returned"
            /\ UNCHANGED delay
       [] Outcome(r) = "5xx" ->
            /\ delay' = ServerBackoff(attempt)
            /\ pc' = "sleep"
            /\ UNCHANGED result
       [] OTHER ->
            /\ result' = Returned(JBool(FALSE), Text(r.text))
            /\ pc' = "returned"
            /\ UNCHANGED delay
  /\ UNCHANGED <<config, other, req, alerts_list, idx, counters, human,
                 attempt, sleeps, response, delivered>>

\* Mutant of Sleep: the attempt counter is not advanced after a sleep.
Sleep_NoAdvance ==
  /\ pc = "sleep"
  /\ sleeps' = Append(sleeps, delay)
  /\ delay' = 0
  /\ pc' = "post"
  /\ UNCHANGED <<config, other, req, alerts_list, idx, counters, human,
                 attempt, result, tries, response, delivered, posts>>

\* Lines 55-56, 60, 41, 61: the sleep ends; the loop goes on or is exhausted.
Sleep ==
  /\ pc = "sleep"
  /\ sleeps' = Append(sleeps, delay)
  /\ delay' = 0
  /\ IF attempt < max_retries
     THEN /\ attempt' = attempt + 1
          /\ pc' = "post"
          /\ UNCHANGED result
     ELSE /\ result' = Returned(JBool(FALSE), Reason("max_retries_exceeded"))
          /\ pc' = "returned"
          /\ UNCHANGED attempt
  /\ UNCHANGED <<config, other, req, alerts_list, idx, counters, human, tries,
                 response, delivered, posts>>

(* --------------------------- specification ---------------------------- *)

Next ==
  \/ Authenticate
  \/ Normalize
  \/ Examine
  \/ SendTelegram
  \/ \E r \in Replies : Post(r)
  \/ Sleep
  \/ Forwarded
  \/ Except
  \/ Respond

Spec == Init /\ [][Next]_vars

\* The handler's thread keeps running: a post ends with a response or an
\* exception (line 43 sets a timeout), a sleep ends, and every other step is
\* straight-line code.
FairSpec == Spec /\ WF_vars(Next)

(* ---------------------------- two requests ---------------------------- *)

\* The locals of the request whose thread is running.
Locals ==
  [auth |-> auth, raw |-> raw, pc |-> pc, alerts_obj |-> alerts_obj,
   alerts_list |-> alerts_list, idx |-> idx, processed |-> processed,
   skipped |-> skipped, errors |-> errors, human |-> human,
   attempt |-> attempt, delay |-> delay, result |-> result,
   response |-> response, classes |-> classes, delivered |-> delivered,
   tries |-> tries, sleeps |-> sleeps, posts |-> posts]

\* The locals of a request that arrived with the given body and has not run.
Fresh(body) ==
  [auth |-> Unset, raw |-> body, pc |-> "start", alerts_obj |-> Unset,
   alerts_list |-> <<>>, idx |-> 0, processed |-> 0, skipped |-> 0,
   errors |-> <<>>, human |-> <<>>, attempt |-> 0, delay |-> 0,
   result |-> NoResult, response |-> NoResponse, classes |-> <<>>,
   delivered |-> <<>>, tries |-> <<>>, sleeps |-> <<>>, posts |-> 0]

\* The thread of request t goes on where it stood.
Resume(t) ==
  /\ auth' = t.auth
  /\ raw' = t.raw
  /\ pc' = t.pc
  /\ alerts_obj' = t.alerts_obj
  /\ alerts_list' = t.alerts_list
  /\ idx' = t.idx
  /\ processed' = t.processed
  /\ skipped' = t.skipped
  /\ errors' = t.errors
  /\ human' = t.human
  /\ attempt' = t.attempt
  /\ delay' = t.delay
  /\ result' = t.result
  /\ response' = t.response
  /\ classes' = t.classes
  /\ delivered' = t.delivered
  /\ tries' = t.tries
  /\ sleeps' = t.sleeps
  /\ posts' = t.posts

\* Mutant of Switch: a thread inside time.sleep keeps the processor.
Switch_NotWhileSleeping ==
  /\ other.pc \notin {"none", "done"}
  /\ pc # "sleep"
  /\ other' = Locals
  /\ Resume(other)
  /\ UNCHANGED config

\* Mutant of Switch: the message being forwarded is a global that the two
\* requests share.
Switch_SharedMessage ==
  /\ other.pc \notin {"none", "done"}
  /\ other' = Locals
  /\ Resume([other EXCEPT !.human = human])
  /\ UNCHANGED config

\* Line 141: app.run serves each request in a thread of its own.  The
\* scheduler takes the processor from the running thread, wherever it
\* stands, and gives it to the thread of the other request; the module
\* globals are all the two share.
Switch ==
  /\ other.pc \notin {"none", "done"}
  /\ other' = Locals
  /\ Resume(other)
  /\ UNCHANGED config

\* The bodies of the two requests: a bare array of a mapping and a string
\* that is no JSON, and an envelope of an encoded mapping.
BodyA == json_dumps(JList(<<MFull, JStr(Txt("not-a-json-string"))>>))
BodyB == json_dumps(JMap(Txt("alerts") :> JList(<<JStr(json_dumps(MHost))>>)))

\* What a requests.post call does while two requests are served.
ConcReplies ==
  { Reply(200, json_dumps(JMap(Txt("ok") :> JBool(TRUE)))),
    Reply(500, <<W("internal")>>),
    Reply(400, <<W("bad request")>>),
    [kind |-> "net"],
    [kind |-> "exc"] }

\* Two requests; the thread of the first is running.
ConcInit ==
  /\ Loaded
  /\ Arrived(BodyA)
  /\ other = Fresh(BodyB)

ConcNext ==
  \/ Authenticate
  \/ Normalize
  \/ Examine
  \/ SendTelegram
  \/ \E r \in ConcReplies : Post(r)
  \/ Sleep
  \/ Forwarded
  \/ Except
  \/ Respond
  \/ Switch

ConcSpec == ConcInit /\ [][ConcNext]_vars

\* A step of the handler for the running request.
Serve ==
  \/ Authenticate
  \/ Normalize
  \/ Examine
  \/ SendTelegram
  \/ \E r \in ConcReplies : Post(r)
  \/ Sleep
  \/ Forwarded
  \/ Except
  \/ Respond

\* The thread that has the processor keeps running, and the scheduler gives
\* the processor to a thread that waits for it.
ConcFairSpec == ConcSpec /\ WF_vars(Serve) /\ WF_vars(Switch)

TypeOK ==
  /\ pc \in {"start", "parse", "loop", "call", "post", "sleep", "returned",
             "raised", "done"}
  /\ idx \in 0..MaxBatch
  /\ processed \in 0..MaxBatch
  /\ skipped \in 0..MaxBatch
  /\ attempt \in 0..max_retries

(* ------------------------------ claims -------------------------------- *)

\* The request passed authentication and normalization has run.
Normalized == pc \notin {"start", "parse"} /\ response.status # 401

\* The strings that encode a mapping of the corpus, and the message of each
\* mapping.
EncodedMapping == [m \in Mappings |-> JStr(json_dumps(m))]
MessageOf == [m \in Mappings |-> Human(m)]

\* The send_telegram calls made for candidate i.
CallsFor(i) == {j \in DOMAIN delivered : delivered[j].at = i}

\* C1: the counters add up.  After the loop has handled i candidates,
\* processed + skipped = i, each handled candidate has been counted once, and
\* a 200 response carries processed + skipped = received_raw_count, the
\* length of the candidate list.
C1_CountersAddUp ==
  /\ processed + skipped = idx
  /\ Len(classes) = idx
  /\ idx <= Len(alerts_list)
  /\ response.status = 200 =>
       /\ response.processed + response.skipped = response.received_raw_count
       /\ response.received_raw_count = Len(alerts_list)
       /\ response.processed = processed
       /\ response.skipped = skipped

\* C1 witness: a 200 response to a batch of one processed and one skipped
\* candidate.
C1_Witness ==
  /\ response.status = 200
  /\ response.received_raw_count = 2
  /\ response.processed = 1
  /\ response.skipped = 1

\* C2: per-element fault isolation.  Once a candidate list is resolved, the
\* request can only end with a 200 batch result, and it ends only after every
\* candidate has been examined and classified, whatever happened to the
\* candidates before; an exception leaves the handler inside the loop.
C2_FaultIsolation ==
  /\ (Normalized /\ response.status # 400) =>
       /\ response.status \in {0, 200}
       /\ pc = "done" =>
            /\ response.status = 200
            /\ idx = Len(alerts_list)
            /\ Len(classes) = Len(alerts_list)
  /\ pc = "raised" => (Normalized /\ idx < Len(alerts_list))

\* C2 witness: a finished batch whose first candidate raised and whose second
\* was still processed.
C2_Witness ==
  /\ pc = "done"
  /\ response.status = 200
  /\ Len(classes) = 2
  /\ classes[1] = "skipped_exc"
  /\ classes[2] = "processed"

\* The outcomes send_telegram returns: success, no credentials, permanent
\* rejection or undecodable 200 body (the response text), a decoded body
\* without a true ok, and exhausted retries.
IsDeliveryOutcome(r) ==
  /\ r.k = "ret"
  /\ \/ Truthy(r.ok)
     \/ r.resp = Reason("no-creds")
     \/ r.resp = Reason("max_retries_exceeded")
     \/ r.resp.k = "text"
     \/ r.resp.k = "map"

\* C3: once send_telegram has returned for a candidate, with any outcome,
\* the candidate is counted processed, not skipped, and adds no error.
C3_ProcessedWhateverDelivery ==
  (pc \in {"loop", "done"} /\ result # NoResult) =>
    /\ IsDeliveryOutcome(result)
    /\ classes[idx] = "processed"
    /\ processed = Cardinality({i \in DOMAIN classes : classes[i] = "processed"})
    /\ Len(errors) = Cardinality({i \in DOMAIN classes : classes[i] = "skipped_exc"})
    /\ skipped = idx - processed

\* C3 witness: a candidate counted processed after its delivery ran out of
\* retries.
C3_Witness ==
  /\ pc = "loop"
  /\ result = Returned(JBool(FALSE), Reason("max_retries_exceeded"))
  /\ classes[idx] = "processed"
  /\ skipped = 0
  /\ errors = <<>>

\* Every requests.post call of the current send_telegram call failed at
\* network level.
AllNetworkFailures == tries # <<>> /\ \A i \in DOMAIN tries : tries[i] = "net"

\* C4: with credentials and only network failures, send_telegram does not
\* return before the third attempt, attempt k is followed by a sleep of k
\* seconds (so the delays increase), and it returns
\* (False, "max_retries_exceeded") after exactly 3 attempts.
C4_NetworkFailuresExhaust ==
  AllNetworkFailures =>
    /\ pc \in {"sleep", "post", "returned"}
    /\ Len(tries) <= 3
    /\ \A n \in DOMAIN sleeps :
         /\ sleeps[n] = n
         /\ n > 1 => sleeps[n] > sleeps[n - 1]
    /\ pc = "sleep" => Len(sleeps) = Len(tries) - 1 /\ delay = Len(tries)
    /\ pc = "post" => Len(sleeps) = Len(tries) /\ Len(tries) < 3
    /\ pc = "returned" =>
         /\ Len(tries) = 3
         /\ sleeps = <<1, 2, 3>>
         /\ result = Returned(JBool(FALSE), Reason("max_retries_exceeded"))

\* C4 witness: send_telegram has returned after three network failures.
C4_Witness ==
  /\ pc = "returned"
  /\ AllNetworkFailures
  /\ Len(tries) = 3

\* The bot token or the chat id is None or empty.
CredentialsMissing ==
  \/ TELEGRAM_BOT_TOKEN \in {None, PyStr(<<>>)}
  \/ TELEGRAM_CHAT_ID \in {None, PyStr(<<>>)}

\* C5: without the bot token or without the chat id, no requests.post call
\* and no sleep is ever made, and every send_telegram call returns
\* (False, "no-creds").
C5_NoCredsNoNetwork ==
  CredentialsMissing =>
    /\ posts = 0
    /\ tries = <<>>
    /\ sleeps = <<>>
    /\ pc \notin {"post", "sleep", "raised"}
    /\ result # NoResult => result = Returned(JBool(FALSE), Reason("no-creds"))
    /\ pc = "returned" => result = Returned(JBool(FALSE), Reason("no-creds"))

\* C5 witness: a call made with an empty chat id has returned.
C5_Witness ==
  /\ TELEGRAM_CHAT_ID = PyStr(<<>>)
  /\ TELEGRAM_BOT_TOKEN # None
  /\ pc = "returned"
  /\ delivered # <<>>
  /\ result = Returned(JBool(FALSE), Reason("no-creds"))

BodyUnusable == alerts_obj.k \in {"num", "bool", "null"}

\* C7: a body that is a number, a boolean, null or no JSON at all is answered
\* 400 invalid_json as a whole: there is no candidate list, nothing is
\* counted and nothing is sent.
C7_InvalidBodyRejected ==
  (Normalized /\ BodyUnusable) =>
    /\ response = [status |-> 400, error |-> "invalid_json"]
    /\ pc = "done"
    /\ alerts_list = <<>>
    /\ idx = 0 /\ processed = 0 /\ skipped = 0 /\ errors = <<>>
    /\ classes = <<>>
    /\ delivered = <<>>
    /\ posts = 0

\* C7 witness: a body that is a number has been refused.
C7_Witness ==
  /\ response.status = 400
  /\ alerts_obj = JNum(7)
  /\ raw = <<TNum(7)>>

\* C8: a body that is a JSON string is decoded a second time and answered 200:
\* a sequence becomes the candidate list, a mapping a one-element list, and
\* anything else leaves the original string as the only candidate.
C8_StringBodyAccepted ==
  (Normalized /\ pc = "done" /\ IsStr(alerts_obj)) =>
    /\ response.status = 200
    /\ LET inner == try_parse_json_string(alerts_obj.s)
       IN alerts_list = IF IsList(inner) THEN inner.l
                        ELSE IF IsDict(inner) THEN <<inner>>
                        ELSE <<alerts_obj>>

\* C9: a body that is a mapping or a sequence resolves by first match: the
\* sequence under alerts (also when empty), the sequence itself, or the
\* mapping alone in a one-element list, also when its alerts is no sequence;
\* the request is then answered 200 and received_raw_count is the length of
\* that list.
C9_ShapeResolution ==
  (Normalized /\ (IsDict(alerts_obj) \/ IsList(alerts_obj))) =>
    LET v == alerts_obj
        key == Txt("alerts")
        envelope == IsDict(v) /\ key \in DOMAIN v.m /\ IsList(v.m[key])
    IN /\ response.status \in {0, 200}
       /\ envelope => alerts_list = v.m[key].l
       /\ IsList(v) => alerts_list = v.l
       /\ (IsDict(v) /\ ~envelope) => alerts_list = <<v>>
       /\ pc = "done" =>
            /\ response.status = 200
            /\ response.received_raw_count = Len(alerts_list)

\* C9 witness: an envelope with two candidates has been answered.
C9_Witness ==
  /\ pc = "done"
  /\ IsDict(alerts_obj)
  /\ Txt("alerts") \in DOMAIN alerts_obj.m
  /\ IsList(alerts_obj.m[Txt("alerts")])
  /\ response.status = 200
  /\ response.received_raw_count = 2

\* C10: double-encoding transparency.  A handled candidate that is a mapping
\* m or the JSON-encoded string of m gets the same treatment: one
\* send_telegram call with the message extracted from m, and it is counted
\* processed (skipped with an error only if that call raised).  A string that
\* does not decode to a mapping is skipped without any call.
C10_DoubleEncoding ==
  \A i \in DOMAIN classes :
    LET e == alerts_list[i]
    IN /\ \A m \in Mappings :
            (e = m \/ e = EncodedMapping[m]) =>
              /\ classes[i] \in {"processed", "skipped_exc"}
              /\ Cardinality(CallsFor(i)) = 1
              /\ \A j \in CallsFor(i) : delivered[j].text = MessageOf[m]
       /\ (IsStr(e) /\ \A m \in Mappings : e # EncodedMapping[m]) =>
            /\ classes[i] = "skipped_str"
            /\ CallsFor(i) = {}

\* C10 witness: an encoded mapping was processed and its message is the one
\* of the mapping itself.
C10_Witness ==
  /\ Len(classes) >= 1
  /\ alerts_list[1] = EncodedMapping[MFull]
  /\ classes[1] = "processed"
  /\ delivered # <<>>
  /\ delivered[1] = [at |-> 1, text |-> MessageOf[MFull]]

\* The candidate is a mapping, directly or as the string that encodes one.
IsMappingCandidate(e) == IsDict(e) \/ \E m \in Mappings : e = EncodedMapping[m]

\* The mapping a mapping candidate stands for.
MappingOf(e) == IF IsDict(e) THEN e ELSE CHOOSE m \in Mappings : e = EncodedMapping[m]

\* The message built from nothing but defaults, "[?] <no-name> on <unknown> -- ",
\* and the one of a firing alert whose name, instance and summary are defaults.
DefaultsMessage ==
  <<W("["), W("?"), W("] "), W("<no-name>"), W(" on "), W("<unknown>"), W(" -- ")>>
FiringDefaultsMessage ==
  <<W("["), W("firing"), W("] "), W("<no-name>"), W(" on "), W("<unknown>"), W(" -- ")>>

C12_ServerErrorRetried ==
  \A k \in DOMAIN tries :
    (tries[k] = "5xx" /\ k < max_retries) =>
      /\ k = Len(tries) =>
           /\ pc \in {"sleep", "post"}
           /\ result = NoResult
           /\ pc = "sleep" => (delay = 2 ^ k /\ attempt = k /\ Len(sleeps) = k - 1)
           /\ pc = "post" => (attempt = k + 1 /\ Len(sleeps) = k)
      /\ k < Len(tries) => Len(sleeps) >= k
      /\ k <= Len(sleeps) => sleeps[k] = 2 ^ k

\* C12 witness: after two 5xx responses and sleeps of 2 and 4 seconds the
\* third attempt is about to be made.
C12_Witness ==
  /\ pc = "post"
  /\ tries = <<"5xx", "5xx">>
  /\ sleeps = <<2, 4>>
  /\ attempt = 3

\* The texts of the replies whose status is neither 200 nor in 500..599.
RejectionTexts ==
  {r.text : r \in {q \in Replies : q.kind = "http" /\ q.status # 200
                                     /\ ~(q.status >= 500 /\ q.status <= 599)}}

\* C13: a response whose status is neither 200 nor in 500..599 at attempt k
\* is terminal.  send_telegram returns (False, response text) at once: the
\* rejected attempt is the last one, no sleep follows it and the number of
\* posts of the call is exactly k.
C13_RejectionTerminal ==
  \A k \in DOMAIN tries :
    tries[k] = "rejected" =>
      /\ k = Len(tries)
      /\ pc = "returned"
      /\ attempt = k
      /\ delay = 0
      /\ Len(sleeps) = k - 1
      /\ result.k = "ret"
      /\ result.ok = JBool(FALSE)
      /\ result.resp.k = "text"
      /\ result.resp.s \in RejectionTexts

\* C13 witness: a rejection at the second attempt, after one network failure.
C13_Witness ==
  /\ pc = "returned"
  /\ tries = <<"net", "rejected">>
  /\ sleeps = <<1>>
  /\ attempt = 2
  /\ result.ok = JBool(FALSE)
  /\ result.resp.k = "text"

\* The bodies of the 200 replies.
Texts200 == {r.text : r \in {q \in Replies : q.kind = "http" /\ q.status = 200}}

\* What C14 states for a 200 response with body t: an undecodable body gives
\* (False, raw text), a decoded body gives its ok indicator, or False when it
\* has none, with the decoded body.
Claimed200 ==
  [t \in Texts200 |->
     LET e == json_loads(t)
     IN IF ~e.ok THEN Returned(JBool(FALSE), Text(t))
        ELSE IF e.v.k = "map" /\ Txt("ok") \in DOMAIN e.v.m
             THEN Returned(e.v.m[Txt("ok")], e.v)
             ELSE Returned(JBool(FALSE), e.v)]

\* The same with the raw text also for a body that decodes to something
\* other than a JSON object.
Amended200 ==
  [t \in Texts200 |->
     LET e == json_loads(t)
     IN IF ~e.ok \/ e.v.k # "map" THEN Returned(JBool(FALSE), Text(t))
        ELSE IF Txt("ok") \in DOMAIN e.v.m
             THEN Returned(e.v.m[Txt("ok")], e.v)
             ELSE Returned(JBool(FALSE), e.v)]

\* A 200 response ended the call at the attempt that received it.
TerminalAt200 ==
  /\ pc = "returned"
  /\ attempt = Len(tries)
  /\ Len(sleeps) = Len(tries) - 1
  /\ delay = 0

\* C14 as stated: a 200 response is terminal and its outcome is the one the
\* claim gives for its body.
C14_OkResponseTerminal ==
  \A k \in DOMAIN tries :
    tries[k] = "200" =>
      /\ k = Len(tries)
      /\ TerminalAt200
      /\ \E t \in Texts200 : result = Claimed200[t]

\* C14, amended: a 200 response is terminal at the attempt that received it,
\* with no sleep and no further attempt.  The outcome is a success exactly
\* when the body decodes to a JSON object with a true ok; a body that does
\* not decode, or decodes to something other than an object, gives
\* (False, raw text); a decoded object whose ok is false or absent gives a
\* failure with the decoded object.
C14_OkResponseTerminalObject ==
  \A k \in DOMAIN tries :
    tries[k] = "200" =>
      /\ k = Len(tries)
      /\ TerminalAt200
      /\ \E t \in Texts200 : result = Amended200[t]
      /\ Truthy(result.ok) <=>
           /\ result.resp.k = "map"
           /\ Txt("ok") \in DOMAIN result.resp.m
           /\ result.resp.m[Txt("ok")] = JBool(TRUE)
      /\ result.resp.k \in {"map", "text"}

\* C14 witness: a 200 response at the second attempt whose body is the JSON
\* array [] ended the call with (False, raw text).
C14_Witness ==
  /\ pc = "returned"
  /\ tries = <<"5xx", "200">>
  /\ sleeps = <<2>>
  /\ result = Returned(JBool(FALSE), Text(json_dumps(JList(<<>>))))

\* d[key], or None when the key is missing.
Lookup(d, key) == DictGet(d, key, None)

\* The message C15 states for mapping a: every link of a chain is taken when
\* the value before it is missing, empty or null.
ClaimedHuman(a) ==
  LET l0 == Lookup(a, Txt("labels"))
      labels == IF IsDict(l0) THEN l0 ELSE JMap(EmptyMap)
      a0 == Lookup(a, Txt("annotations"))
      ann == IF IsDict(a0) THEN a0 ELSE JMap(EmptyMap)
      name == PyOr(Lookup(labels, Txt("alertname")), JStr(Txt("<no-name>")))
      instance == PyOr(PyOr(Lookup(labels, Txt("instance")),
                            Lookup(labels, Txt("host"))),
                       JStr(Txt("<unknown>")))
      summary == PyOr(PyOr(Lookup(ann, Txt("summary")),
                           Lookup(ann, Txt("description"))),
                      JStr(<<>>))
      status == PyOr(Lookup(a, Txt("status")), JStr(Txt("?")))
  IN <<W("[")>> \o Str(status) \o <<W("] ")>> \o Str(name) \o <<W(" on ")>>
     \o Str(instance) \o <<W(" -- ")>> \o Str(summary)

\* C15: the text delivered for a mapping candidate is
\* "[{status}] {name} on {instance} -- {summary}" with the fields taken from
\* the fallback chains, a link being taken when the value before it is
\* missing, empty or null.
C15_FallbackChains ==
  \A j \in DOMAIN delivered :
    delivered[j].text = ClaimedHuman(MappingOf(alerts_list[delivered[j].at]))

\* The handled candidates of one class.
Handled(class) == {i \in DOMAIN classes : classes[i] = class}

\* The errors list and the counters agree with the classes of the handled
\* candidates.
ErrorsMatchClasses ==
  /\ Len(errors) = Cardinality(Handled("skipped_exc"))
  /\ Len(errors) <= skipped
  /\ processed = Cardinality(Handled("processed"))
  /\ skipped = Cardinality(Handled("skipped_exc")) + Cardinality(Handled("skipped_str"))
                 + Cardinality(Handled("skipped_type"))
  /\ response.status = 200 => response.errors = errors

\* The errors list changes only by the entry the handler of an exception
\* appends for the candidate that raised, which it counts skipped.
ErrorsGrowOnException ==
  errors' # errors =>
    /\ pc = "raised"
    /\ Len(errors') = Len(errors) + 1
    /\ SubSeq(errors', 1, Len(errors)) = errors
    /\ idx' = idx + 1
    /\ classes' = Append(classes, "skipped_exc")
    /\ skipped' = skipped + 1
    /\ processed' = processed

\* C16: errors holds one entry for each candidate whose processing raised,
\* appended when that candidate is handled, hence in input order, and none
\* for a candidate skipped as an undecodable string or a non-mapping; so
\* len(errors) <= skipped always, and a candidate that raised is counted
\* skipped, not processed.
C16_ErrorsPerException == []ErrorsMatchClasses /\ [][ErrorsGrowOnException]_vars

\* C16 witness: a batch result with one error for two skipped candidates,
\* the first skipped without an exception and the second for one.
C16_Witness ==
  /\ response.status = 200
  /\ Len(classes) = 2
  /\ classes[1] \in {"skipped_str", "skipped_type"}
  /\ classes[2] = "skipped_exc"
  /\ Len(response.errors) = 1
  /\ response.skipped = 2
  /\ response.processed = 0

\* send_telegram is running for the current candidate.
Delivering == pc \in {"post", "sleep", "returned", "raised"}

\* The calls of send_telegram so far are those for the extracted candidates
\* among the ones reached, one each, in input order, each with the message of
\* its candidate; none is under way while the loop picks a candidate.
DeliveriesInOrder ==
  /\ \A j \in DOMAIN delivered :
       /\ delivered[j].at \in 1..Len(alerts_list)
       /\ IsMappingCandidate(alerts_list[delivered[j].at])
       /\ delivered[j].text = Human(MappingOf(alerts_list[delivered[j].at]))
       /\ \A k \in DOMAIN delivered : j < k => delivered[j].at < delivered[k].at
  /\ \A i \in 1..idx : IsMappingCandidate(alerts_list[i]) <=> CallsFor(i) # {}
  /\ \A j \in DOMAIN delivered :
       delivered[j].at <= (IF Delivering THEN idx + 1 ELSE idx)
  /\ Delivering => (delivered # <<>> /\ delivered[Len(delivered)].at = idx + 1)
  /\ pc \in {"loop", "call", "done"} =>
       /\ attempt = 0
       /\ delay = 0
       /\ tries = <<>>
       /\ sleeps = <<>>
  /\ pc = "done" => idx = Len(alerts_list)

\* The loop moves to the next candidate, one at a time, only when the
\* current one was skipped or its send_telegram call has returned or raised;
\* send_telegram is entered only for the current candidate with its message.
OneAtATime ==
  /\ idx' # idx =>
       /\ idx' = idx + 1
       /\ pc \in {"loop", "returned", "raised"}
       /\ pc' = "loop"
  /\ delivered' # delivered =>
       /\ pc = "call"
       /\ delivered' = Append(delivered, [at |-> idx + 1, text |-> human])
  /\ (pc = "returned" /\ pc' # pc) => result.k = "ret"

\* C17: within a request the candidates are handled in input order, one at a
\* time.  send_telegram is called once for each extracted candidate and for
\* no other, the delivered messages are those of the extracted candidates in
\* input order, and the call for candidate i, with its retries and sleeps,
\* has ended before candidate i + 1 is examined.
C17_InOrderOneAtATime == []DeliveriesInOrder /\ [][OneAtATime]_vars

\* C17 witness: a batch of two mappings ended with two calls, the first one
\* after retries and sleeps, in the order of the batch.
C17_Witness ==
  /\ pc = "done"
  /\ Len(alerts_list) = 2
  /\ Len(delivered) = 2
  /\ delivered[1].at = 1
  /\ delivered[2].at = 2
  /\ posts >= 4

\* C19: a backoff sleep happens only when a further attempt follows it.
\* send_telegram does not sleep after its last attempt, so a call makes at
\* most max_retries - 1 sleeps and has made no more when it returns
\* max_retries_exceeded.
C19_SleepOnlyBeforeRetry ==
  /\ pc = "sleep" => attempt < max_retries
  /\ Len(sleeps) <= max_retries - 1
  /\ (pc = "returned" /\ result.k = "ret"
        /\ result.resp = Reason("max_retries_exceeded")) =>
       Len(sleeps) <= max_retries - 1

\* The attempts of the current send_telegram call all failed transiently.
AllTransient == \A i \in DOMAIN tries : tries[i] \in {"net", "5xx"}

\* A send_telegram call makes at most max_retries posts, has no outcome
\* while it runs and exactly one when it has returned, and that outcome is
\* max_retries_exceeded exactly when max_retries posts were made and all
\* failed transiently.
RetriesBounded ==
  /\ Len(tries) <= max_retries
  /\ attempt <= max_retries
  /\ pc \in {"post", "sleep"} =>
       /\ result = NoResult
       /\ AllTransient
       /\ attempt = Len(tries) + (IF pc = "post" THEN 1 ELSE 0)
  /\ pc = "returned" =>
       /\ result.k = "ret"
       /\ result.resp = Reason("max_retries_exceeded") <=>
            (Len(tries) = max_retries /\ AllTransient)

\* A request that has ended was refused with 401 or 400, or it has its
\* batch result, every candidate handled.
Answered ==
  pc = "done" =>
    /\ response.status \in {200, 400, 401}
    /\ (auth = Unset \/ ~BadToken(HeaderOrEmpty(auth), EXPECTED_TOKEN)) =>
         response.status # 401
    /\ response.status = 200 <=> ResolveList(alerts_obj).ok
    /\ response.status = 200 =>
         (idx = Len(alerts_list) /\ response.received_raw_count = idx)

\* C20: whatever the channel answers, a send_telegram call ends after at
\* most max_retries posts with one outcome, which is max_retries_exceeded if
\* and only if all max_retries posts failed transiently; so every request
\* ends, an authorized one with a candidate list with its batch result.
C20_DeliveryTerminates ==
  /\ []RetriesBounded
  /\ []Answered
  /\ <>(pc = "done")

\* C20 witness: a batch result returned after a call that used up its
\* attempts on a mix of 5xx responses and network failures.
C20_Witness ==
  /\ pc = "done"
  /\ response.status = 200
  /\ response.processed >= 1
  /\ result = Returned(JBool(FALSE), Reason("max_retries_exceeded"))
  /\ posts = max_retries

\* The candidate list and the one message of each of the two requests:
\* "[firing] DiskFull on db1 -- disk at 95%" for the first and
\* "[resolved] <no-name> on web1 -- back up" for the second.
Own ==
  (BodyA :> [list |-> <<MFull, JStr(Txt("not-a-json-string"))>>,
             text |-> <<W("["), W("firing"), W("] "), W("DiskFull"), W(" on "),
                        W("db1"), W(" -- "), W("disk at 95%")>>])
  @@ (BodyB :> [list |-> <<JStr(json_dumps(MHost))>>,
                text |-> <<W("["), W("resolved"), W("] "), W("<no-name>"),
                           W(" on "), W("web1"), W(" -- "), W("back up")>>])

\* The answers the handler gives to each of the two requests when it is the
\* only one: 401, or the batch result with its one mapping processed or, if
\* the send raised, skipped with an error.
AloneResults ==
  (BodyA :> {[status |-> 401, error |-> "unauthorized"],
             [status |-> 200, received_raw_count |-> 2, processed |-> 1,
              skipped |-> 1, errors |-> <<>>],
             [status |-> 200, received_raw_count |-> 2, processed |-> 0,
              skipped |-> 2, errors |-> <<"exc">>]})
  @@ (BodyB :> {[status |-> 401, error |-> "unauthorized"],
                [status |-> 200, received_raw_count |-> 1, processed |-> 1,
                 skipped |-> 0, errors |-> <<>>],
                [status |-> 200, received_raw_count |-> 1, processed |-> 0,
                 skipped |-> 1, errors |-> <<"exc">>]})

\* Request t has seen nothing of the other request: its list, its message,
\* its counters and its answer are those of its own body.
OwnWork(t) ==
  /\ t.raw \in DOMAIN Own
  /\ t.alerts_list \in {<<>>, Own[t.raw].list}
  /\ t.pc \in {"loop", "call", "post", "sleep", "returned", "raised"} =>
       t.alerts_list = Own[t.raw].list
  /\ t.human \in {<<>>, Own[t.raw].text}
  /\ t.delivered \in {<<>>, <<[at |-> 1, text |-> Own[t.raw].text]>>}
  /\ t.processed + t.skipped = t.idx
  /\ Len(t.classes) = t.idx
  /\ Len(t.errors) = Cardinality({i \in DOMAIN t.classes : t.classes[i] = "skipped_exc"})
  /\ t.processed = Cardinality({i \in DOMAIN t.classes : t.classes[i] = "processed"})
  /\ t.posts <= max_retries
  /\ t.pc = "done" <=> t.response.status # 0
  /\ t.pc = "done" => t.response \in AloneResults[t.raw]
  /\ t.response.status = 200 =>
       /\ t.response.processed = t.processed
       /\ t.response.skipped = t.skipped
       /\ t.response.errors = t.errors
       /\ t.delivered # <<>>

\* Both requests did their own work, and while one sleeps in a backoff the
\* thread of the other, unless it is done, can be given the processor.
Isolated ==
  /\ OwnWork(Locals)
  /\ OwnWork(other)
  /\ Locals.raw # other.raw
  /\ (pc = "sleep" /\ other.pc # "done") => ENABLED Switch

\* The module globals are only read, and the locals of the request that is
\* not running change only when its thread is given the processor, which
\* then finds them as it left them.
NoInterference ==
  /\ config' = config
  /\ other' # other => (other' = Locals /\ Locals' = other)

\* C18: with two requests served concurrently, a backoff sleep of one does
\* not keep the other from running, both reach their response, and under
\* every interleaving each request's counters, errors, delivered message
\* and response are those it gets when served alone; the requests share
\* nothing but the module globals, which no step changes.
C18_ConcurrentRequests ==
  /\ []Isolated
  /\ [][NoInterference]_vars
  /\ <>(pc = "done" /\ other.pc = "done")

\* C18 witness: the second request was served from start to finish and has
\* its batch result while the first one is in its first backoff sleep.
C18_Witness ==
  /\ other.raw = BodyA
  /\ other.pc = "sleep"
  /\ other.sleeps = <<>>
  /\ raw = BodyB
  /\ pc = "done"
  /\ response.status = 200
  /\ response.processed = 1
  /\ posts >= 1

====
